---- MODULE Spec2Model ----
(***************************************************************************)
(* EntitySet (hypernetx/classes/entityset.py): a two-level incidence       *)
(* table with a cell-property layer, level restriction and collapse of     *)
(* level-0 items that have identical sets of level-1 items.                *)
(*                                                                         *)
(* Representation.                                                         *)
(*  - Item labels are integers; their order is the sort order of the       *)
(*    labels they stand for.                                               *)
(*  - Column labels are strings; "0" and "1" stand for the integer column  *)
(*    labels 0 and 1 that an unnamed table gets, every other string for a  *)
(*    column name.                                                         *)
(*  - An optional value is a sequence of length at most one: None is the   *)
(*    empty sequence and Some(x) is <<x>>.                                 *)
(*  - A dict is a function; the empty dict is the function with the empty  *)
(*    domain.                                                              *)
(*  - The string f"{x}: {n}" is the pair <<x, n>>.                         *)
(***************************************************************************)
EXTENDS Integers, Sequences, FiniteSets, TLC

VARIABLES
    dataframe,        \* self._dataframe: sequence of rows [cell, weight], duplicates removed
    data_cols,        \* self._data_cols: the column label of every level
    labels,           \* per level, the ordered unique-label index (the column's categories)
    static,           \* the static flag given to the constructor
    cell_properties,  \* self._cell_properties: None, or a Series (pair -> dict)
    state_dict,       \* self._state_dict: the derived-view cache
    call,             \* the last call made on the instance: [op, args, raised]
    result            \* what that call returned (None when it returned nothing or raised)

vars == <<dataframe, data_cols, labels, static, cell_properties, state_dict, call, result>>

receiver == <<dataframe, data_cols, labels, static, cell_properties, state_dict>>

----------------------------------------------------------------------------
(* Bounds and input universes *)

MaxRows == 3

Level0Items == {1, 2}
Level1Items == {1, 2}

DefaultCols == <<"0", "1">>
NamedCols == <<"edges", "nodes">>

PropA == "color"
PropB == "width"

None == <<>>
Some(x) == <<x>>

EmptyDict == <<>>

(* The nested dicts {level 0 item: {level 1 item: {name: value}}} passed as props *)
PropsInputs ==
    { EmptyDict,
      (1 :> (1 :> (PropA :> 1))),
      (1 :> (1 :> (PropA :> 2))),
      (1 :> (1 :> (PropB :> 1))) @@ (2 :> (1 :> (PropA :> 1))) }

LevelsInputs == { <<0>>, <<1>>, <<0, 1>>, <<1, 0>> }

AggregateInputs == { "sum", "None" }

----------------------------------------------------------------------------
(* Generic helpers *)

Range(s) == { s[i] : i \in DOMAIN s }

InjectiveSeqs(S, n) == { s \in [1..n -> S] : \A i, j \in 1..n : s[i] = s[j] => i = j }

Orderings(S) == InjectiveSeqs(S, Cardinality(S))

IsSorted(s) == \A i, j \in DOMAIN s : i < j => s[i] < s[j]

SortedSeq(S) == CHOOSE s \in Orderings(S) : IsSorted(s)

RECURSIVE SumSeq(_)
SumSeq(s) == IF s = <<>> THEN 0 ELSE Head(s) + SumSeq(Tail(s))

----------------------------------------------------------------------------
(* The instance: derived attributes and the views of the base store *)

Dimsize == Len(data_cols)

Cells(df) == { df[i].cell : i \in DOMAIN df }

(* Items of a table in one level (level is 0-based, as in the source) *)
ItemsOf(df, level) == { c[level + 1] : c \in Cells(df) }

(* Entity.memberships of a 2-level table: each level 1 item with the level 0
   items of its rows, in row order *)
EntityMemberships(df) ==
    [ n \in ItemsOf(df, 1) |->
        LET InRow(r) == r.cell[2] = n
            rows == SelectSeq(df, InRow)
        IN  [ i \in DOMAIN rows |-> rows[i].cell[1] ] ]

(* update_properties(props, new_props): for an index in both, the stored
   dict is updated key-wise with the new one; the other entries are kept *)
DictUpdate(d, u) ==
    [ k \in DOMAIN d \cup DOMAIN u |-> IF k \in DOMAIN u THEN u[k] ELSE d[k] ]

update_properties(props, new_props) ==
    [ c \in DOMAIN props \cup DOMAIN new_props |->
        IF c \in DOMAIN props /\ c \in DOMAIN new_props
        THEN DictUpdate(props[c], new_props[c])
        ELSE IF c \in DOMAIN props THEN props[c] ELSE new_props[c] ]

(* EntitySet._create_cell_properties: a Series indexed by the (level 0 item,
   level 1 item) pairs of the nested keys of props; empty for falsy props *)
create_cell_properties(props) ==
    IF DOMAIN props = {}
    THEN EmptyDict
    ELSE LET cells == UNION { { <<edge, node>> : node \in DOMAIN props[edge] }
                              : edge \in DOMAIN props }
         IN  [ c \in cells |-> props[c[1]][c[2]] ]

(* Variant: the cell properties are created whatever the dimensionality *)
init_cell_properties_always(dimsize, props) ==
    Some(create_cell_properties(props))

(* EntitySet.__init__, after the base constructor: cell properties exist
   only for 2-dimensional data *)
init_cell_properties(dimsize, props) ==
    IF dimsize = 2 THEN Some(create_cell_properties(props)) ELSE None

(* EntitySet.memberships, the value it returns *)
memberships(dimsize, df, sd) ==
    IF dimsize = 1
    THEN sd.memberships
    ELSE IF sd.elements # None THEN sd.elements ELSE Some(EntityMemberships(df))

(* ... and the cache it leaves behind: the base store keeps the view it
   computed *)
memberships_cache(dimsize, df, sd) ==
    IF dimsize = 1
    THEN sd
    ELSE [ sd EXCEPT !.elements = memberships(dimsize, df, sd) ]

EmptyStateDict == [ memberships |-> None, elements |-> None ]

----------------------------------------------------------------------------
(* Construction *)

Tables(S) == UNION { InjectiveSeqs(S, n) : n \in 1..MaxRows }

(* weights=None gives every cell weight 1; an array gives row i its entry *)
WeightsInputs(n) == { [ i \in 1..n |-> 1 ], [ i \in 1..n |-> i ] }

Frame(cells, weights) ==
    [ i \in DOMAIN cells |-> [ cell |-> cells[i], weight |-> weights[i] ] ]

(* EntitySet(): no data *)
InitEmpty ==
    /\ dataframe = <<>>
    /\ data_cols = <<>>
    /\ labels = <<>>
    /\ cell_properties = init_cell_properties(0, EmptyDict)

(* EntitySet(entity=<table with one column>) *)
InitSet ==
    \E cells \in Tables({ <<n>> : n \in Level1Items }) :
        /\ dataframe = Frame(cells, [ i \in DOMAIN cells |-> 1 ])
        /\ data_cols = <<"nodes">>
        /\ labels = << SortedSeq({ c[1] : c \in Range(cells) }) >>
        /\ \E props \in PropsInputs :
               cell_properties = init_cell_properties(1, props)

(* EntitySet(entity=<dict of lists or table with two columns>) and
   EntitySet(data=<array>, labels=<labels>): the label index of a level is
   sorted unless labels are given, and then it is the given order *)
InitSystemOfSets ==
    \E cells \in Tables(Level0Items \X Level1Items) :
    \E weights \in WeightsInputs(Len(cells)) :
    \E cols \in { DefaultCols, NamedCols } :
    \E props \in PropsInputs :
        LET items0 == { c[1] : c \in Range(cells) }
            items1 == { c[2] : c \in Range(cells) }
        IN  /\ dataframe = Frame(cells, weights)
            /\ data_cols = cols
            /\ \E order \in Orderings(items0) :
                   /\ cols = DefaultCols => IsSorted(order)
                   /\ labels = << order, SortedSeq(items1) >>
            /\ cell_properties = init_cell_properties(2, props)

Init ==
    /\ InitEmpty \/ InitSet \/ InitSystemOfSets
    /\ static \in BOOLEAN
    /\ state_dict = EmptyStateDict
    /\ call = [ op |-> "__init__", raised |-> "None" ]
    /\ result = None

----------------------------------------------------------------------------
(* memberships (read accessor) *)

ReadMemberships ==
    /\ Dimsize >= 1
    /\ result' = memberships(Dimsize, dataframe, state_dict)
    /\ state_dict' = memberships_cache(Dimsize, dataframe, state_dict)
    /\ call' = [ op |-> "memberships", raised |-> "None" ]
    /\ UNCHANGED <<dataframe, data_cols, labels, static, cell_properties>>

----------------------------------------------------------------------------
(* assign_cell_properties *)

(* Variant: the arguments of update_properties exchanged, so that the stored
   values win over the assigned ones *)
assigned_cell_properties_swapped(props) ==
    LET new == create_cell_properties(props)
    IN  IF cell_properties[1] # EmptyDict
        THEN update_properties(new, cell_properties[1])
        ELSE new

assigned_cell_properties(props) ==
    LET new == create_cell_properties(props)
    IN  IF cell_properties[1] # EmptyDict
        THEN update_properties(cell_properties[1], new)
        ELSE new

(* Variant: the call is refused on a static instance *)
AssignCellProperties_static(props) ==
    /\ cell_properties' =
           IF Dimsize = 2 /\ ~static
           THEN Some(assigned_cell_properties(props))
           ELSE cell_properties
    /\ call' = [ op |-> "assign_cell_properties",
                 raised |-> IF static THEN "StateError" ELSE "None",
                 props |-> props ]
    /\ result' = None
    /\ UNCHANGED <<dataframe, data_cols, labels, static, state_dict>>

AssignCellProperties(props) ==
    /\ cell_properties' =
           IF Dimsize = 2
           THEN Some(assigned_cell_properties(props))
           ELSE cell_properties
    /\ call' = [ op |-> "assign_cell_properties", raised |-> "None",
                 props |-> props ]
    /\ result' = None
    /\ UNCHANGED <<dataframe, data_cols, labels, static, state_dict>>

----------------------------------------------------------------------------
(* restrict_to_levels *)

Aggregate(aggregateby, ws) ==
    CASE aggregateby = "sum" -> SumSeq(ws)

(* The rows of the base store's projection: the cells restricted to the
   levels, duplicates dropped (first occurrence kept); the weights of the
   duplicates aggregated when weights is set and aggregateby is not None,
   and 1 otherwise *)
Project(cell, levels) == [ i \in DOMAIN levels |-> cell[levels[i] + 1] ]

RestrictedFrame(levels, weights, aggregateby) ==
    LET proj == [ i \in DOMAIN dataframe |-> Project(dataframe[i].cell, levels) ]
        firsts == { i \in DOMAIN proj : \A j \in 1..(i - 1) : proj[j] # proj[i] }
        Kept(i) == i \in firsts
        order == SelectSeq([ i \in DOMAIN proj |-> i ], Kept)
        WeightOf(c) ==
            LET Same(r) == Project(r.cell, levels) = c
                rows == SelectSeq(dataframe, Same)
            IN  Aggregate(aggregateby, [ k \in DOMAIN rows |-> rows[k].weight ])
    IN  [ k \in DOMAIN order |->
            [ cell |-> proj[order[k]],
              weight |-> IF weights /\ aggregateby # "None"
                         THEN WeightOf(proj[order[k]])
                         ELSE 1 ] ]

(* Entity.restrict_to_levels: a new instance of the class over the
   projection, built with the constructor's defaults *)
EntityRestrictToLevels(levels, weights, aggregateby) ==
    [ dataframe |-> RestrictedFrame(levels, weights, aggregateby),
      data_cols |-> [ i \in DOMAIN levels |-> data_cols[levels[i] + 1] ],
      labels |-> [ i \in DOMAIN levels |-> labels[levels[i] + 1] ],
      static |-> TRUE,
      cell_properties |-> init_cell_properties(Len(levels), EmptyDict),
      state_dict |-> EmptyStateDict ]

(* Variant: the memberships are never copied to the new instance *)
seed_memberships_never(restricted, keep_memberships) == restricted

(* restricted._state_dict["memberships"] = self.memberships, when
   keep_memberships is set *)
seed_memberships(restricted, keep_memberships) ==
    IF keep_memberships
    THEN [ restricted EXCEPT !.state_dict.memberships =
                                 memberships(Dimsize, dataframe, state_dict) ]
    ELSE restricted

(* Variant: the memberships are also stored under the receiver's own
   "memberships" key *)
state_dict_after_restrict_self(keep_memberships) ==
    IF keep_memberships
    THEN [ memberships_cache(Dimsize, dataframe, state_dict) EXCEPT
             !.memberships = memberships(Dimsize, dataframe, state_dict) ]
    ELSE state_dict

(* The receiver's own cache after the call: reading self.memberships may
   fill it, nothing else of the receiver is written *)
state_dict_after_restrict(keep_memberships) ==
    IF keep_memberships
    THEN memberships_cache(Dimsize, dataframe, state_dict)
    ELSE state_dict

RestrictToLevels(levels, weights, aggregateby, keep_memberships) ==
    LET args == [ levels |-> levels, keep_memberships |-> keep_memberships ]
    IN  IF \E i \in DOMAIN levels : levels[i] >= Dimsize
        THEN /\ call' = [ op |-> "restrict_to_levels", raised |-> "IndexError",
                          args |-> args ]
             /\ result' = None
             /\ UNCHANGED receiver
        ELSE LET restricted == EntityRestrictToLevels(levels, weights, aggregateby)
             IN  /\ call' = [ op |-> "restrict_to_levels", raised |-> "None",
                              args |-> args ]
                 /\ result' = Some(seed_memberships(restricted, keep_memberships))
                 /\ state_dict' = state_dict_after_restrict(keep_memberships)
                 /\ UNCHANGED <<dataframe, data_cols, labels, static,
                                cell_properties>>

----------------------------------------------------------------------------
(* collapse_identical_elements *)

(* Variant: the class is named after its last item *)
ClassName_last(x) == << x[Len(x)], Len(x) >>

(* f"{x.iloc[0]}: {len(x)}" *)
ClassName(x) == << x[1], Len(x) >>

(* Variant: only the smallest level 1 item of the rows is kept *)
Frozenset_first(item) ==
    LET ns == { c[2] : c \in { d \in Cells(dataframe) : d[1] = item } }
    IN  { CHOOSE n \in ns : \A m \in ns : n <= m }

(* Variant: the level 1 items of all rows, whatever the level 0 item *)
Frozenset_all(item) == ItemsOf(dataframe, 1)

(* .agg(frozenset): the level 1 items of the rows of one level 0 item *)
Frozenset(item) == { c[2] : c \in { d \in Cells(dataframe) : d[1] = item } }

(* .groupby(self._data_cols[0], as_index=False).agg(frozenset): one row per
   level 0 item, in the order of the level's label index (groupby sorts the
   group keys, and the keys of a categorical column sort as its categories),
   with the frozenset of the level 1 items of its rows *)
GroupByLevel0 ==
    LET Observed(item) == item \in ItemsOf(dataframe, 0)
        order == SelectSeq(labels[1], Observed)
    IN  [ i \in DOMAIN order |-> [ item |-> order[i], set |-> Frozenset(order[i]) ] ]

(* .groupby(self._data_cols[1], as_index=False).agg(name=...,
   equivalence_class=...): one row per frozenset, with the name of the class
   and the list of its items, both taken over the rows of the group in the
   order GroupByLevel0 has them *)
GroupBySet ==
    LET grouped == GroupByLevel0
    IN  { [ set |-> s,
            name |-> ClassName(x),
            equivalence_class |-> x ] :
          <<s, x>> \in
            { << g,
                 LET InGroup(r) == r.set = g
                     rows == SelectSeq(grouped, InGroup)
                 IN  [ i \in DOMAIN rows |-> rows[i].item ] >> :
              g \in { grouped[i].set : i \in DOMAIN grouped } } }

(* collapse.set_index("name")[...].to_dict() *)
ToDict(collapse, column) ==
    [ name \in { r.name : r \in collapse } |->
        LET r == CHOOSE r \in collapse : r.name = name
        IN  IF column = "set" THEN r.set ELSE r.equivalence_class ]

(* EntitySet(new_entity_dict): a system of sets over unnamed columns, built
   with the constructor's defaults; the order of the rows of one set is the
   iteration order of a frozenset, so the instance is kept as its sets *)
NewEntity(new_entity_dict) ==
    [ elements |-> new_entity_dict,
      data_cols |-> DefaultCols,
      static |-> TRUE,
      cell_properties |-> init_cell_properties(2, EmptyDict),
      state_dict |-> EmptyStateDict ]

(* The named aggregation equivalence_class=(0, list) reads the column
   labelled 0 of the grouped frame *)
HasColumn0 == data_cols[1] = "0"

(* What the call raises on a 1-level table: the outcome of agg(frozenset) on
   a frame without value columns is the library's, either is possible *)
CollapseErrorsOneLevel == { "TypeError", "IndexError" }

CollapseIdenticalElements(return_equivalence_classes) ==
    LET args == [ return_equivalence_classes |-> return_equivalence_classes ]
    IN  /\ UNCHANGED receiver
        /\ IF Dimsize = 0
           THEN \* self._data_cols[0] of the first groupby is out of range
                /\ call' = [ op |-> "collapse_identical_elements",
                             raised |-> "IndexError", args |-> args ]
                /\ result' = None
           ELSE IF Dimsize = 1
           THEN \* the first groupby runs on a table whose only column is the
                \* key: agg(frozenset) either refuses it (TypeError), or
                \* returns a key-only frame and self._data_cols[1] of the
                \* second groupby is out of range (IndexError)
                /\ \E raised \in CollapseErrorsOneLevel :
                       call' = [ op |-> "collapse_identical_elements",
                                 raised |-> raised, args |-> args ]
                /\ result' = None
           ELSE IF return_equivalence_classes /\ ~HasColumn0
           THEN /\ call' = [ op |-> "collapse_identical_elements",
                             raised |-> "KeyError", args |-> args ]
                /\ result' = None
           ELSE LET collapse == GroupBySet
                    new_entity == NewEntity(ToDict(collapse, "set"))
                IN  /\ call' = [ op |-> "collapse_identical_elements",
                                 raised |-> "None", args |-> args ]
                    /\ result' = Some(
                         [ new_entity |-> new_entity,
                           equivalence_classes |->
                               IF return_equivalence_classes
                               THEN Some(ToDict(collapse, "equivalence_class"))
                               ELSE None ])

----------------------------------------------------------------------------

Next ==
    \/ ReadMemberships
    \/ \E props \in PropsInputs : AssignCellProperties(props)
    \/ \E levels \in LevelsInputs, weights \in BOOLEAN,
          aggregateby \in AggregateInputs, keep_memberships \in BOOLEAN :
          RestrictToLevels(levels, weights, aggregateby, keep_memberships)
    \/ \E return_equivalence_classes \in BOOLEAN :
          CollapseIdenticalElements(return_equivalence_classes)

Spec == Init /\ [][Next]_vars

----------------------------------------------------------------------------
(* Vocabulary of the properties, stated over the table alone *)

(* The distinct level 0 items of the receiver *)
Items0 == { c[1] : c \in Cells(dataframe) }

(* The set of level 1 items a level 0 item appears with *)
Sig(e) == { n \in Level1Items : <<e, n>> \in Cells(dataframe) }

(* The level 0 items that share the set of level 1 items sig *)
ClassOf(sig) == { e \in Items0 : Sig(e) = sig }

(* The member of a set of level 0 items that a table row names first *)
FirstEncountered(S) ==
    LET first == CHOOSE i \in DOMAIN dataframe :
                    /\ dataframe[i].cell[1] \in S
                    /\ \A j \in 1..(i - 1) : dataframe[j].cell[1] \notin S
    IN  dataframe[first].cell[1]

(* The member of a set of level 0 items that the level's label index has
   first *)
FirstInLabelIndex(S) ==
    LET first == CHOOSE i \in DOMAIN labels[1] :
                    /\ labels[1][i] \in S
                    /\ \A j \in 1..(i - 1) : labels[1][j] \notin S
    IN  labels[1][first]

(* The sum of the lengths of the lists of a dict of lists *)
RECURSIVE SumOfSizes(_)
SumOfSizes(cls) ==
    IF DOMAIN cls = {} THEN 0
    ELSE LET k == CHOOSE k \in DOMAIN cls : TRUE
         IN  Len(cls[k]) + SumOfSizes([ j \in DOMAIN cls \ {k} |-> cls[j] ])

Collapsing == call.op = "collapse_identical_elements"
Collapsed == Collapsing /\ call.raised = "None"
NewElements == result[1].new_entity.elements
Classes == result[1].equivalence_classes

Restricting == call.op = "restrict_to_levels"
Restricted == Restricting /\ call.raised = "None"

Assigning == call.op = "assign_cell_properties"

----------------------------------------------------------------------------
(* C1: for every 2-level structure,
   collapse_identical_elements(return_equivalence_classes=True) returns
   equivalence classes whose sizes sum to the number of distinct level 0
   items, each item being a member of exactly one class. *)
C1_ClassSizesSumToItems ==
    (Collapsing /\ Dimsize = 2 /\ call.args.return_equivalence_classes) =>
        /\ call.raised = "None"
        /\ result # None
        /\ Classes # None
        /\ LET cls == Classes[1]
           IN  /\ SumOfSizes(cls) = Cardinality(Items0)
               /\ \A e \in Items0 :
                     Cardinality({ k \in DOMAIN cls : e \in Range(cls[k]) }) = 1

(* C2: two level 0 items are in the same equivalence class exactly when
   their sets of level 1 items are equal (whatever the cell weights and the
   cell properties), and the returned structure maps the name of each class
   to that shared set. *)
C2_ClassesAreSignatureClasses ==
    Collapsed =>
        /\ \A e \in Items0 : \E k \in DOMAIN NewElements : NewElements[k] = Sig(e)
        /\ \A k1, k2 \in DOMAIN NewElements :
              NewElements[k1] = NewElements[k2] => k1 = k2
        /\ \A k \in DOMAIN NewElements :
              /\ k[1] \in ClassOf(NewElements[k])
              /\ k[2] = Cardinality(ClassOf(NewElements[k]))
        /\ Classes # None =>
              /\ DOMAIN Classes[1] = DOMAIN NewElements
              /\ \A k \in DOMAIN NewElements :
                    /\ Range(Classes[1][k]) = ClassOf(NewElements[k])
                    /\ Len(Classes[1][k]) = Cardinality(ClassOf(NewElements[k]))

(* A class of two items returned for a receiver whose rows differ in weight
   and that has cell properties on one of the two items only *)
C2_Witness ==
    /\ Collapsed
    /\ Classes # None
    /\ \E k \in DOMAIN Classes[1] : Len(Classes[1][k]) = 2
    /\ \E i, j \in DOMAIN dataframe : dataframe[i].weight # dataframe[j].weight
    /\ cell_properties[1] # EmptyDict
    /\ <<2, 1>> \notin DOMAIN cell_properties[1]

(* C3, as stated: the name of every class is "<L>: <n>" with n the size of
   the class and L the member of the class that a table row names first. *)
C3_NameIsFirstEncountered ==
    Collapsed =>
        \A k \in DOMAIN NewElements :
            /\ k[2] = Cardinality(ClassOf(NewElements[k]))
            /\ k[1] = FirstEncountered(ClassOf(NewElements[k]))

(* C3, amended: the name of every class is "<L>: <n>" with n the size of
   the class and L the member of the class that comes first in the label
   index of level 0 (the order the rows are grouped in). *)
C3_NameIsFirstInLabelIndex ==
    Collapsed =>
        \A k \in DOMAIN NewElements :
            /\ k[2] = Cardinality(ClassOf(NewElements[k]))
            /\ k[1] = FirstInLabelIndex(ClassOf(NewElements[k]))

(* A class of two items named after the member the table names second *)
C3_Witness ==
    /\ Collapsed
    /\ \E k \in DOMAIN NewElements :
          /\ k[2] = 2
          /\ k[1] # FirstEncountered(ClassOf(NewElements[k]))

(* C4: when every level 0 item has a set of level 1 items of its own, the
   collapse returns as many groups as the receiver has level 0 items, every
   class has size 1, and every group has the set of its item. *)
C4_UniqueSignaturesKeepEveryGroup ==
    (Collapsed /\ \A e1, e2 \in Items0 : Sig(e1) = Sig(e2) => e1 = e2) =>
        /\ Cardinality(DOMAIN NewElements) = Cardinality(Items0)
        /\ \A k \in DOMAIN NewElements : k[2] = 1
        /\ \A e \in Items0 :
              /\ <<e, 1>> \in DOMAIN NewElements
              /\ NewElements[<<e, 1>>] = Sig(e)
        /\ Classes # None =>
              \A k \in DOMAIN Classes[1] : Len(Classes[1][k]) = 1

(* Two items with different sets, one set inside the other, collapsed by the
   default call *)
C4_Witness ==
    /\ Collapsed
    /\ ~call.args.return_equivalence_classes
    /\ Cardinality(Items0) = 2
    /\ Sig(1) # Sig(2)
    /\ Sig(1) \cap Sig(2) # {}
    /\ Cardinality(DOMAIN NewElements) = 2

----------------------------------------------------------------------------
(* The properties named in props for a pair, and whether props names it *)
Names(props, c) == c[1] \in DOMAIN props /\ c[2] \in DOMAIN props[c[1]]

NamedPairs(props) == { c \in Level0Items \X Level1Items : Names(props, c) }

(* C5: for a 2-level structure S, S.restrict_to_levels([1],
   keep_memberships=True) has one level and its memberships accessor returns
   S.memberships: every level 1 item of S with the level 0 items of S that
   appear with it. *)
C5_MembershipsKeptOnProjection ==
    (Restricted /\ Dimsize = 2 /\ call.args.levels = <<1>>
                /\ call.args.keep_memberships) =>
        LET r == result[1]
            kept == memberships(Len(r.data_cols), r.dataframe, r.state_dict)
        IN  /\ Len(r.data_cols) = 1
            /\ kept # None
            /\ kept = memberships(Dimsize, dataframe, state_dict)
            /\ DOMAIN kept[1] = { c[2] : c \in Cells(dataframe) }
            /\ \A n \in DOMAIN kept[1] :
                  Range(kept[1][n]) = { e \in Items0 : <<e, n>> \in Cells(dataframe) }

(* A projection to level 1 that merges two rows and keeps a level 1 item
   with two members *)
C5_Witness ==
    /\ Restricted /\ Dimsize = 2 /\ call.args.levels = <<1>>
    /\ call.args.keep_memberships
    /\ Len(result[1].dataframe) < Len(dataframe)
    /\ \E n \in DOMAIN result[1].state_dict.memberships[1] :
          Len(result[1].state_dict.memberships[1][n]) = 2

(* C6, as stated: restrict_to_levels leaves the receiver's table rows, cell
   weights, cell properties and derived-view cache as they were. *)
C6_ReceiverUnchanged ==
    [][ Restricting' => receiver' = receiver ]_vars

(* C6, amended: restrict_to_levels leaves the receiver's table rows, cell
   weights, label index, static flag and cell properties as they were; of
   the derived-view cache it changes nothing but the memberships view of a
   2-level receiver, which a call with keep_memberships=True computes from
   the table and stores when it was not stored before. *)
C6_ReceiverUnchangedButCache ==
    [][ Restricting' =>
          /\ UNCHANGED <<dataframe, data_cols, labels, static, cell_properties>>
          /\ state_dict'.memberships = state_dict.memberships
          /\ \/ state_dict'.elements = state_dict.elements
             \/ /\ call'.raised = "None"
                /\ call'.args.keep_memberships
                /\ Dimsize = 2
                /\ state_dict.elements = None
                /\ state_dict'.elements = Some(EntityMemberships(dataframe)) ]_vars

(* A weighted 2-level receiver with cell properties, restricted with
   keep_memberships=True, holding the memberships view afterwards *)
C6_Witness ==
    /\ Restricted /\ Dimsize = 2
    /\ call.args.keep_memberships
    /\ state_dict.elements # None
    /\ cell_properties[1] # EmptyDict
    /\ \E i \in DOMAIN dataframe : dataframe[i].weight > 1

(* C7: an assign_cell_properties call on a 2-level structure leaves, for
   every pair, the key-wise overlay of the assignment on what was stored: a
   pair named by the call and stored before has the union of both dicts
   with the call's values for the names in both; a pair only stored before
   keeps its dict; a pair only named by the call gets the call's dict. *)
C7_AssignOverlays ==
    [][ (Assigning' /\ Dimsize = 2) =>
          LET old == cell_properties[1]
              new == cell_properties'[1]
              props == call'.props
          IN  /\ DOMAIN new = DOMAIN old \cup NamedPairs(props)
              /\ \A c \in DOMAIN new :
                    IF c \in DOMAIN old /\ Names(props, c)
                    THEN LET p == props[c[1]][c[2]]
                         IN  /\ DOMAIN new[c] = DOMAIN old[c] \cup DOMAIN p
                             /\ \A name \in DOMAIN new[c] :
                                   new[c][name] = IF name \in DOMAIN p
                                                  THEN p[name]
                                                  ELSE old[c][name]
                    ELSE IF c \in DOMAIN old
                    THEN new[c] = old[c]
                    ELSE new[c] = props[c[1]][c[2]] ]_vars

(* After assignments of PropB and a second pair, then of PropA twice: the
   pair has both names, PropA with its last value, and the second pair is
   still stored *)
C7_Witness ==
    /\ Assigning /\ Dimsize = 2
    /\ call.props = (1 :> (1 :> (PropA :> 2)))
    /\ cell_properties[1][<<1, 1>>] = (PropA :> 2) @@ (PropB :> 1)
    /\ cell_properties[1][<<2, 1>>] = (PropA :> 1)

(* C8, as stated: on a static 2-level instance assign_cell_properties
   raises and the cell properties stay as they were. *)
C8_StaticAssignRaises ==
    [][ (Assigning' /\ static /\ Dimsize = 2) =>
          /\ call'.raised # "None"
          /\ cell_properties' = cell_properties ]_vars

(* C8, amended: on a static 2-level instance assign_cell_properties raises
   nothing and stores every property the call names, with the call's value,
   as it does on a mutable one; the static flag stays as it was. *)
C8_StaticAssignStores ==
    [][ (Assigning' /\ static /\ Dimsize = 2) =>
          /\ call'.raised = "None"
          /\ static'
          /\ \A c \in NamedPairs(call'.props) :
                /\ c \in DOMAIN cell_properties'[1]
                /\ \A name \in DOMAIN call'.props[c[1]][c[2]] :
                      /\ name \in DOMAIN cell_properties'[1][c]
                      /\ cell_properties'[1][c][name] = call'.props[c[1]][c[2]][name] ]_vars

(* A static instance whose stored value of PropA was overwritten *)
C8_Witness ==
    /\ Assigning /\ static /\ Dimsize = 2
    /\ call.props = (1 :> (1 :> (PropA :> 2)))
    /\ cell_properties[1][<<1, 1>>] = (PropA :> 2) @@ (PropB :> 1)

(* C9: the result of restrict_to_levels holds a seeded "memberships" entry
   only when keep_memberships is set and one level is retained. *)
C9_SeededOnlyForOneLevel ==
    Restricted =>
        LET r == result[1]
        IN  r.state_dict.memberships # None =>
                /\ call.args.keep_memberships
                /\ Len(r.data_cols) = 1

(* C10: cell_properties is None exactly when the dimensionality is not 2,
   and on such a structure assign_cell_properties raises nothing and leaves
   it None. *)
C10_CellPropertiesNoneOffTwoLevels ==
    /\ cell_properties = None <=> Dimsize # 2
    /\ (Assigning /\ Dimsize # 2) =>
          /\ call.raised = "None"
          /\ cell_properties = None

(* A 1-level set on which properties were assigned *)
C10_Witness ==
    /\ Assigning /\ Dimsize = 1
    /\ call.props # EmptyDict
    /\ cell_properties = None

====
